---------------------------- MODULE Spec2Model ----------------------------
(***************************************************************************)
(* A model of main.py: the wallet ledger store (WalletManager), the index  *)
(* filter (is_id_valid), the connection retry loop (get_web3_connection),  *)
(* the amount formatter (format_token_amount), the address run             *)
(* (generate_address) and the balance run (generate_network_balance).      *)
(*                                                                         *)
(* Text is modelled as a sequence of one-character strings, so that        *)
(* strip / rstrip / split / startswith act on characters as in Python.     *)
(***************************************************************************)
EXTENDS Integers, Sequences, FiniteSets, TLC

(***************************************************************************)
(* Bounds of the model.                                                    *)
(***************************************************************************)
MaxId == 3            \* indices 1..MaxId are fed to is_id_valid
MaxAmount == 120      \* raw amounts 0..MaxAmount are fed to format_token_amount
MaxDecimals == 3      \* decimals 0..MaxDecimals (and NativeDecimals)
MaxRecords == 3       \* records in a ledger file
MaxTrailing == 2      \* extra empty lines at the end of a ledger file

(***************************************************************************)
(* Program constants.                                                      *)
(***************************************************************************)
NativeDecimals == 18  \* NETWORK_CONFIG[..]["native_decimals"]
DefaultMaxRetries == 3 \* get_web3_connection(url, max_retries = 3)
Cooldown == 2         \* time.sleep(2) between connection attempts
DelayMin == 1         \* random.uniform(1, 3)
DelayMax == 3

VARIABLES
    pc,               \* position of the running operation
    file,             \* content of the ledger file, a sequence of characters
    saved,            \* content of the ledger file when the operation started
    wallets,          \* list returned by load_wallets
    updated_wallets,  \* generate_address: the list being rewritten
    idx,              \* loop index over wallets (0-based position reached)
    upd,              \* generate_address: the last update_wallet_with_address call, if any
    id, runeq, rungt, runlt, match,      \* is_id_valid: arguments and result
    amount, decimals, formatted,         \* format_token_amount: arguments, result
    max_retries, attempt, web3_obj,      \* get_web3_connection: argument, loop var,
                                         \* and the connection (None until made)
    attempts, cooldowns,                 \* connection attempts made, time slept
                                         \* between them
    token_decimals,                      \* token metadata resolved for the run
    metadata_calls, balance_calls,       \* contract/RPC read calls made
    calc_count,                          \* generate_network_balance: calc_count
    address,                             \* address of the wallet being queried
    delay,                               \* duration of the last pacing sleep
    matched, queried, delayed, logged,   \* indices: filter passed / queried / ...
    summary                              \* count in the final summary, or None

vars == << pc, file, saved, wallets, updated_wallets, idx, upd,
           id, runeq, rungt, runlt, match, amount, decimals, formatted,
           max_retries, attempt, web3_obj, attempts, cooldowns, token_decimals,
           metadata_calls, balance_calls, calc_count, address, delay,
           matched, queried, delayed, logged, summary >>

fileVars == << file, saved, wallets, updated_wallets, upd >>
filterVars == << id, runeq, rungt, runlt, match >>
formatVars == << amount, decimals, formatted >>
connVars == << max_retries, attempt, web3_obj, attempts, cooldowns >>
runVars == << token_decimals, metadata_calls, balance_calls, calc_count,
              address, delay, matched, queried, delayed, logged, summary >>

None == "None"

(***************************************************************************)
(* Text helpers.                                                           *)
(***************************************************************************)
NL == "\n"
Whitespace == {" ", "\t", "\r", NL}

Range(s) == {s[i] : i \in 1..Len(s)}

\* s.rstrip(chars)
RECURSIVE RStrip(_, _)
RStrip(s, chars) ==
    IF s # <<>> /\ s[Len(s)] \in chars
    THEN RStrip(SubSeq(s, 1, Len(s) - 1), chars)
    ELSE s

\* s.lstrip(chars)
RECURSIVE LStrip(_, _)
LStrip(s, chars) ==
    IF s # <<>> /\ s[1] \in chars THEN LStrip(Tail(s), chars) ELSE s

\* s.strip()
Strip(s) == LStrip(RStrip(s, Whitespace), Whitespace)

\* position of the first c in s, or Len(s) + 1
RECURSIVE Find(_, _, _)
Find(s, c, i) ==
    IF i > Len(s) \/ s[i] = c THEN i ELSE Find(s, c, i + 1)

\* s.split(c)
RECURSIVE Split(_, _)
Split(s, c) ==
    LET k == Find(s, c, 1) IN
    IF k > Len(s) THEN << s >>
    ELSE << SubSeq(s, 1, k - 1) >> \o Split(SubSeq(s, k + 1, Len(s)), c)

\* w.startswith(p)
StartsWith(w, p) == Len(p) <= Len(w) /\ SubSeq(w, 1, Len(p)) = p

\* f.readlines(): the lines of the file, each keeping its newline
RECURSIVE ReadLines(_)
ReadLines(f) ==
    IF f = <<>> THEN <<>>
    ELSE LET k == Find(f, NL, 1) IN
         IF k > Len(f) THEN << f >>
         ELSE << SubSeq(f, 1, k) >> \o ReadLines(SubSeq(f, k + 1, Len(f)))

\* '0' * n (empty for n <= 0)
RECURSIVE Repeat(_, _)
Repeat(c, n) == IF n <= 0 THEN <<>> ELSE << c >> \o Repeat(c, n - 1)

\* str(n) for n >= 0
Digit(d) == CASE d = 0 -> "0" [] d = 1 -> "1" [] d = 2 -> "2" [] d = 3 -> "3"
              [] d = 4 -> "4" [] d = 5 -> "5" [] d = 6 -> "6" [] d = 7 -> "7"
              [] d = 8 -> "8" [] d = 9 -> "9"
RECURSIVE Str(_)
Str(n) == IF n < 10 THEN << Digit(n) >> ELSE Str(n \div 10) \o << Digit(n % 10) >>

(***************************************************************************)
(* is_id_valid (main.py 192-218).  runeq is always a list: main passes     *)
(* list(args.equal).                                                       *)
(***************************************************************************)
\* variant: the two-sided range taken inclusive
is_id_valid_inclusive(i, eq, gt, lt) ==
    LET range_match ==
            IF gt # 0 /\ lt # 0 THEN gt <= i /\ i <= lt
            ELSE IF gt # 0 THEN i > gt
            ELSE IF lt # 0 THEN i < lt
            ELSE TRUE
        equal_match == IF Len(eq) = 0 THEN TRUE ELSE i \in Range(eq)
    IN range_match /\ equal_match

is_id_valid(i, eq, gt, lt) ==
    LET range_match ==
            IF gt # 0 /\ lt # 0 THEN gt < i /\ i < lt
            ELSE IF gt # 0 THEN i > gt
            ELSE IF lt # 0 THEN i < lt
            ELSE TRUE
        equal_match == IF Len(eq) = 0 THEN TRUE ELSE i \in Range(eq)
    IN range_match /\ equal_match

(***************************************************************************)
(* format_token_amount (main.py 239-247).                                  *)
(*                                                                         *)
(* amount / 10 ** decimals is a double, rendered with `decimals`           *)
(* fractional digits.  For amount < 2^52 the rendering is the exact        *)
(* decimal expansion (the double is within amount * 2^-53 of the quotient, *)
(* less than half a unit of the last rendered digit), which is the range   *)
(* the model draws amounts from; so Fixed is the numeral of amount with    *)
(* the point placed `decimals` digits from the right.                      *)
(* The result is [ok |-> TRUE, text |-> ...] or, when float(formatted)     *)
(* raises ValueError, [ok |-> FALSE, text |-> <<>>].                       *)
(***************************************************************************)
\* f"{result:.{decimals}f}"
Fixed(a, d) ==
    LET s == Str(a)
        p == Repeat("0", d + 1 - Len(s)) \o s
    IN IF d = 0 THEN p
       ELSE SubSeq(p, 1, Len(p) - d) \o << "." >> \o SubSeq(p, Len(p) - d + 1, Len(p))

\* .rstrip('0').rstrip('.')
Stripped(a, d) == RStrip(RStrip(Fixed(a, d), {"0"}), {"."})

\* f"< 0.{'0' * (decimals - 1)}1"
Marker(d) == << "<", " ", "0", "." >> \o Repeat("0", d - 1) \o << "1" >>

\* float(s) parses: s is a non-empty numeral
FloatParses(s) == s # <<>> /\ s # << "." >>

\* float(s) == 0
FloatIsZero(s) == Range(s) \subseteq {"0", "."}

\* variant: without the `result != 0` test
format_token_amount_no_zero_guard(a, d) ==
    LET f == Stripped(a, d) IN
    IF ~FloatParses(f) THEN [ok |-> FALSE, text |-> <<>>]
    ELSE IF FloatIsZero(f) THEN [ok |-> TRUE, text |-> Marker(d)]
    ELSE [ok |-> TRUE, text |-> f]

format_token_amount(a, d) ==
    LET f == Stripped(a, d) IN
    IF ~FloatParses(f) THEN [ok |-> FALSE, text |-> <<>>]
    ELSE IF FloatIsZero(f) /\ a # 0 THEN [ok |-> TRUE, text |-> Marker(d)]
    ELSE [ok |-> TRUE, text |-> f]

(***************************************************************************)
(* WalletManager (main.py 137-181) and get_address_by_key (183-190).       *)
(***************************************************************************)
\* load_wallets: [line.strip() for line in f.readlines() if line.strip()]
\* variant: the lines are filtered but kept unstripped
load_wallets_unstripped(f) ==
    LET lines == ReadLines(f) IN
    SelectSeq(lines, LAMBDA l : Strip(l) # <<>>)

load_wallets(f) ==
    LET lines == ReadLines(f)
        stripped == [i \in 1..Len(lines) |-> Strip(lines[i])]
    IN SelectSeq(stripped, LAMBDA l : l # <<>>)

\* what save_wallets leaves in the file when nothing interrupts it:
\* every record followed by a newline
RECURSIVE save_wallets(_)
save_wallets(ws) ==
    IF ws = <<>> THEN <<>> ELSE Head(ws) \o << NL >> \o save_wallets(Tail(ws))

\* update_wallet_with_address
update_wallet_with_address(ws, private_key, addr) ==
    [i \in 1..Len(ws) |->
        IF StartsWith(ws[i], private_key)
        THEN private_key \o << "," >> \o addr
        ELSE ws[i]]

\* Account.from_key accepts a key of the one fixed length only; the keys of
\* the model are two characters long and the address is derived from the
\* key character by character.
NoAddress == <<>>   \* the None get_address_by_key returns, falsy as None is
ValidKeys == {<< "a", "b" >>, << "b", "a" >>}
AddressChar(c) == IF c = "a" THEN "A" ELSE "B"
get_address_by_key(private_key) ==
    IF private_key \in ValidKeys
    THEN [i \in 1..Len(private_key) |-> AddressChar(private_key[i])]
    ELSE NoAddress

(***************************************************************************)
(* Ledger files.                                                           *)
(***************************************************************************)
\* the lines a ledger can hold: a key, a key with its address, and a
\* malformed key that has a valid key as a proper prefix
RecordPool ==
    { << "a", "b" >>, << "b", "a" >>, << "a", "b", "c" >>,
      << "a", "b", ",", "A", "B" >> }

RECURSIVE SeqsUpTo(_, _)
SeqsUpTo(S, n) ==
    IF n = 0 THEN {<<>>}
    ELSE LET shorter == SeqsUpTo(S, n - 1) IN
         shorter \cup {Append(q, x) : q \in shorter, x \in S}

Ledgers == SeqsUpTo(RecordPool, MaxRecords)

\* a ledger as the program writes it
WrittenFiles == {save_wallets(ws) : ws \in Ledgers}

\* a ledger in the file format: one record per line, the last line with or
\* without its newline, then up to MaxTrailing empty lines
RECURSIVE Join(_)
Join(ws) ==
    IF ws = <<>> THEN <<>>
    ELSE IF Len(ws) = 1 THEN Head(ws)
    ELSE Head(ws) \o << NL >> \o Join(Tail(ws))

FormatFiles ==
    {Join(ws) \o Repeat(NL, k) : ws \in Ledgers, k \in 0..(1 + MaxTrailing)}

(***************************************************************************)
(* Values every specification gives to the variables it does not use.      *)
(***************************************************************************)
IdleFile ==
    /\ file = <<>> /\ saved = <<>> /\ wallets = <<>>
    /\ updated_wallets = <<>> /\ upd = <<>> /\ idx = 0
IdleFilter ==
    /\ id = 0 /\ runeq = <<>> /\ rungt = 0 /\ runlt = 0 /\ match = None
IdleFormat ==
    /\ amount = 0 /\ decimals = 0 /\ formatted = None
IdleConn ==
    /\ max_retries = 0 /\ attempt = 0 /\ web3_obj = None
    /\ attempts = 0 /\ cooldowns = 0
IdleRun ==
    /\ token_decimals = None /\ metadata_calls = 0 /\ balance_calls = 0
    /\ calc_count = 0 /\ address = NoAddress /\ delay = 0
    /\ matched = <<>> /\ queried = <<>>
    /\ delayed = <<>> /\ logged = <<>> /\ summary = None

(***************************************************************************)
(* SpecFilter: is_id_valid applied to bounded arguments.                   *)
(***************************************************************************)
\* the lists --equal can give: up to two indices, repeats allowed
EqualLists ==
    {<<>>} \cup {<<a>> : a \in 1..MaxId}
           \cup {<<a, b>> : a \in 1..MaxId, b \in 1..MaxId}

\* --greater / --less are any int; 0 means unset
BoundValues == -1..(MaxId + 1)

InitFilter ==
    /\ pc = "call"
    /\ id \in 1..MaxId
    /\ runeq \in EqualLists
    /\ rungt \in BoundValues
    /\ runlt \in BoundValues
    /\ match = None
    /\ IdleFile /\ IdleFormat /\ IdleConn /\ IdleRun

CallIsIdValid ==
    /\ pc = "call"
    /\ match' = is_id_valid(id, runeq, rungt, runlt)
    /\ pc' = "returned"
    /\ UNCHANGED << id, runeq, rungt, runlt, idx >>
    /\ UNCHANGED << fileVars, formatVars, connVars, runVars >>

NextFilter == CallIsIdValid

SpecFilter == InitFilter /\ [][NextFilter]_vars

\* C1: is_id_valid(i, E, gt, lt) is true exactly when (E is empty or i is in
\* E) and (gt = 0 or i > gt) and (lt = 0 or i < lt).
C1_FilterPredicate ==
    pc = "returned" =>
        (match <=> /\ (runeq = <<>> \/ \E k \in 1..Len(runeq) : runeq[k] = id)
                   /\ (rungt = 0 \/ id > rungt)
                   /\ (runlt = 0 \/ id < runlt))

\* an index strictly between two set bounds, with no equals-list, is included
C1_Witness ==
    /\ pc = "returned" /\ runeq = <<>>
    /\ rungt # 0 /\ runlt # 0 /\ rungt < id /\ id < runlt
    /\ match = TRUE

(***************************************************************************)
(* SpecFormat: format_token_amount applied to bounded arguments.           *)
(***************************************************************************)
\* decimals() is a uint8 read from the token contract; the native asset
\* uses NativeDecimals
DecimalsValues == (0..MaxDecimals) \cup {NativeDecimals}

InitFormat ==
    /\ pc = "call"
    /\ amount \in 0..MaxAmount
    /\ decimals \in DecimalsValues
    /\ formatted = None
    /\ IdleFile /\ IdleFilter /\ IdleConn /\ IdleRun

CallFormat ==
    /\ pc = "call"
    /\ formatted' = format_token_amount(amount, decimals)
    /\ pc' = "returned"
    /\ UNCHANGED << amount, decimals, idx >>
    /\ UNCHANGED << fileVars, filterVars, connVars, runVars >>

NextFormat == CallFormat

SpecFormat == InitFormat /\ [][NextFormat]_vars

\* 10 ** d, for the exponents the modelled amounts can be multiples of
RECURSIVE Pow10(_)
Pow10(d) == IF d = 0 THEN 1 ELSE 10 * Pow10(d - 1)

\* amount is a multiple of 10 ** decimals.  A non-zero amount of the model
\* is below 10 ** 9, so it is a multiple of no higher power of ten.
IsMultiple(a, d) == a = 0 \/ (d <= 9 /\ a % Pow10(d) = 0)

OneWei == << "0", "." >> \o Repeat("0", NativeDecimals - 1) \o << "1" >>

\* C5 (as stated): format_token_amount(1, 18) returns the near-zero marker
\* "< 0." + 17 zeros + "1"; for rawAmount # 0 the marker is returned whenever
\* the stripped rendering is textually "0"; format_token_amount(0, 18) is "0".
C5_MarkerForOneWei ==
    pc = "returned" =>
        /\ (amount = 1 /\ decimals = NativeDecimals =>
                formatted = [ok |-> TRUE, text |-> Marker(NativeDecimals)])
        /\ (amount # 0 /\ Stripped(amount, decimals) = << "0" >> =>
                formatted = [ok |-> TRUE, text |-> Marker(decimals)])
        /\ (amount = 0 /\ decimals = NativeDecimals =>
                formatted = [ok |-> TRUE, text |-> << "0" >>])

\* C5 (amended): format_token_amount(1, 18) returns "0.000000000000000001",
\* the exact value and not the marker; the marker is returned exactly when
\* rawAmount # 0 and the stripped rendering is zero; format_token_amount(0, 18)
\* is "0".
C5_OneWeiIsExact ==
    pc = "returned" =>
        /\ (amount = 1 /\ decimals = NativeDecimals =>
                formatted = [ok |-> TRUE, text |-> OneWei])
        /\ (formatted.ok =>
                (formatted.text = Marker(decimals)
                    <=> (amount # 0 /\ FloatIsZero(Stripped(amount, decimals)))))
        /\ (amount = 0 /\ decimals = NativeDecimals =>
                formatted = [ok |-> TRUE, text |-> << "0" >>])

\* one raw unit at 18 decimals has been formatted
C5_Witness ==
    /\ pc = "returned" /\ amount = 1 /\ decimals = NativeDecimals
    /\ formatted.text = OneWei

\* C10: for rawAmount a multiple of 10 ** decimals (decimals = 0 included),
\* format_token_amount returns the plain numeral of rawAmount / 10 ** decimals
\* and never raises.
C10_WholeAmountsArePlainNumerals ==
    (pc = "returned" /\ IsMultiple(amount, decimals)) =>
        /\ formatted.ok
        /\ formatted.text =
              Str(IF amount = 0 THEN 0 ELSE amount \div Pow10(decimals))

(***************************************************************************)
(* save_wallets, step by step (main.py 155-162).  `file` is the content    *)
(* the file holds once it is closed: leaving the with block, normally or   *)
(* by an exception, flushes what was written.  idx is the number of        *)
(* records written so far.                                                 *)
(***************************************************************************)
\* open(filename, 'w') truncates the file
SaveOpen ==
    /\ pc = "save"
    /\ file' = <<>>
    /\ idx' = 0
    /\ pc' = "write"
    /\ UNCHANGED << saved, wallets, updated_wallets, upd >>
    /\ UNCHANGED << filterVars, formatVars, connVars, runVars >>

\* open raises: caught at line 161, the file is untouched
SaveOpenFail ==
    /\ pc = "save"
    /\ pc' = "returned"
    /\ UNCHANGED << idx, fileVars, filterVars, formatVars, connVars, runVars >>

\* f.write(wallet + '\n')
SaveWrite ==
    /\ pc = "write"
    /\ idx < Len(updated_wallets)
    /\ file' = file \o updated_wallets[idx + 1] \o << NL >>
    /\ idx' = idx + 1
    /\ UNCHANGED << pc, saved, wallets, updated_wallets, upd >>
    /\ UNCHANGED << filterVars, formatVars, connVars, runVars >>

\* f.write raises: caught at line 161, the file keeps what was written
SaveWriteFail ==
    /\ pc = "write"
    /\ idx < Len(updated_wallets)
    /\ pc' = "returned"
    /\ UNCHANGED << idx, fileVars, filterVars, formatVars, connVars, runVars >>

\* the loop ends, the file is closed, success is logged
SaveDone ==
    /\ pc = "write"
    /\ idx = Len(updated_wallets)
    /\ pc' = "returned"
    /\ UNCHANGED << idx, fileVars, filterVars, formatVars, connVars, runVars >>

\* KeyboardInterrupt, caught by main (467-469), which exits
Interrupt ==
    /\ pc \in {"start", "loop", "save", "write"}
    /\ pc' = "interrupted"
    /\ UNCHANGED << idx, fileVars, filterVars, formatVars, connVars, runVars >>

(***************************************************************************)
(* SpecRoundTrip: save_wallets(load_wallets()) on a ledger file.           *)
(***************************************************************************)
InitRoundTrip ==
    /\ pc = "start"
    /\ file \in FormatFiles
    /\ saved = file
    /\ wallets = <<>> /\ updated_wallets = <<>> /\ upd = <<>> /\ idx = 0
    /\ IdleFilter /\ IdleFormat /\ IdleConn /\ IdleRun

RoundTripLoad ==
    /\ pc = "start"
    /\ wallets' = load_wallets(file)
    /\ updated_wallets' = wallets'
    /\ pc' = "save"
    /\ UNCHANGED << file, saved, upd, idx >>
    /\ UNCHANGED << filterVars, formatVars, connVars, runVars >>

NextRoundTrip == RoundTripLoad \/ SaveOpen \/ SaveWrite \/ SaveDone

SpecRoundTrip == InitRoundTrip /\ [][NextRoundTrip]_vars

\* the content with the newlines at the end of the file normalised
NormalizeEOF(f) ==
    LET body == RStrip(f, {NL}) IN
    IF body = <<>> THEN <<>> ELSE body \o << NL >>

InitAddress ==
    /\ pc = "start"
    /\ file \in WrittenFiles
    /\ saved = file
    /\ wallets = <<>> /\ updated_wallets = <<>> /\ upd = <<>> /\ idx = 0
    /\ IdleFilter /\ IdleFormat /\ IdleConn /\ IdleRun

\* lines 276-284
AddressLoad ==
    /\ pc = "start"
    /\ wallets' = load_wallets(file)
    /\ updated_wallets' = wallets'
    /\ pc' = IF wallets' = <<>> THEN "returned" ELSE "loop"
    /\ UNCHANGED << file, saved, upd, idx >>
    /\ UNCHANGED << filterVars, formatVars, connVars, runVars >>

\* one iteration of the loop at lines 286-302
AddressStep ==
    /\ pc = "loop"
    /\ idx < Len(wallets)
    /\ LET wallet_data == wallets[idx + 1]
           parts == Split(wallet_data, ",")
           private_key == parts[1]
           addr == get_address_by_key(private_key)
       IN IF Len(parts) # 2 /\ addr # NoAddress
          THEN /\ updated_wallets' =
                      update_wallet_with_address(updated_wallets, private_key, addr)
               /\ upd' = << [before |-> updated_wallets, key |-> private_key,
                             addr |-> addr, after |-> updated_wallets'] >>
          ELSE UNCHANGED << updated_wallets, upd >>
    /\ idx' = idx + 1
    /\ pc' = IF idx' = Len(wallets) THEN "save" ELSE "loop"
    /\ UNCHANGED << file, saved, wallets >>
    /\ UNCHANGED << filterVars, formatVars, connVars, runVars >>

NextAddress ==
    \/ AddressLoad \/ AddressStep
    \/ SaveOpen \/ SaveOpenFail \/ SaveWrite \/ SaveWriteFail \/ SaveDone
    \/ Interrupt

SpecAddress == InitAddress /\ [][NextAddress]_vars

\* C6: after an interrupt or a write failure at any point of save_wallets the
\* ledger file holds the complete previous content or the complete new
\* content.
C6_SaveIsAllOrNothing ==
    pc \in {"interrupted", "returned"} =>
        \/ file = saved
        \/ file = save_wallets(updated_wallets)

\* the private-key field of a record
KeyField(w) == Split(w, ",")[1]

\* the list with only the first record whose key field is private_key rewritten
FirstOnly(ws, private_key, addr) ==
    LET hits == {i \in 1..Len(ws) : KeyField(ws[i]) = private_key} IN
    [i \in 1..Len(ws) |->
        IF i \in hits /\ \A j \in hits : i <= j
        THEN private_key \o << "," >> \o addr
        ELSE ws[i]]

\* C8: update_wallet_with_address rewrites only the first record whose
\* private-key field equals privateKey; every other record, a later record
\* with the same key and a record whose key has privateKey as a proper prefix
\* included, passes through unchanged.
C8_OnlyFirstMatchRewritten ==
    \A k \in 1..Len(upd) :
        upd[k].after = FirstOnly(upd[k].before, upd[k].key, upd[k].addr)

(***************************************************************************)
(* SpecBalance: generate_network_balance (main.py 308-376) with            *)
(* get_web3_connection (220-237).  The network comes from the menu built   *)
(* from NETWORK_CONFIG, so the test at line 318 never fails; every network *)
(* has native_decimals = NativeDecimals.                                   *)
(***************************************************************************)
\* the ledgers of the balance runs: valid keys and malformed ones
RunRecordPool == { << "a", "b" >>, << "a", "b", "c" >> }
RunFiles == {save_wallets(ws) : ws \in SeqsUpTo(RunRecordPool, MaxRecords)}

\* the --equal / --greater / --less values of the balance runs
RunEqual == { <<>>, << 2 >>, << 1, 3 >> }
RunGreater == {0, 1}
RunLess == {0, 3}

\* what decimals() of a token contract may return, and raw balances
TokenDecimals == {0, 6}
RawBalances == {0, 1, 10}

InitBalance ==
    /\ pc = "start"
    /\ file \in RunFiles
    /\ saved = file
    /\ wallets = <<>> /\ updated_wallets = <<>> /\ upd = <<>> /\ idx = 0
    /\ runeq \in RunEqual /\ rungt \in RunGreater /\ runlt \in RunLess
    /\ id = 0 /\ match = None
    /\ max_retries \in 1..DefaultMaxRetries
    /\ attempt = 0 /\ web3_obj = None /\ attempts = 0 /\ cooldowns = 0
    /\ IdleFormat /\ IdleRun

\* lines 310-315; an empty ledger ends the run with a warning
BalanceLoad ==
    /\ pc = "start"
    /\ wallets' = load_wallets(file)
    /\ pc' = IF wallets' = <<>> THEN "aborted" ELSE "connect"
    /\ UNCHANGED << file, saved, updated_wallets, upd, idx >>
    /\ UNCHANGED << filterVars, formatVars, connVars, runVars >>

\* one pass of the loop body at lines 223-233, up to the sleep: the
\* liveness check answers, answers no, or raises
\* variant: sleeps after every failed attempt, the last included
ConnectAttempt_sleeps_after_last ==
    /\ pc = "connect"
    /\ attempt < max_retries
    /\ attempts' = attempts + 1
    /\ \E outcome \in {"connected", "down", "exception"} :
          IF outcome = "connected"
          THEN /\ web3_obj' = "Web3"
               /\ pc' = "metadata"
               /\ UNCHANGED attempt
          ELSE /\ pc' = "cooldown"
               /\ UNCHANGED << web3_obj, attempt >>
    /\ UNCHANGED << max_retries, cooldowns, idx >>
    /\ UNCHANGED << fileVars, filterVars, formatVars, runVars >>

ConnectAttempt ==
    /\ pc = "connect"
    /\ attempt < max_retries
    /\ attempts' = attempts + 1
    /\ \E outcome \in {"connected", "down", "exception"} :
          IF outcome = "connected"
          THEN /\ web3_obj' = "Web3"
               /\ pc' = "metadata"
               /\ UNCHANGED attempt
          ELSE IF attempt < max_retries - 1
          THEN /\ pc' = "cooldown"
               /\ UNCHANGED << web3_obj, attempt >>
          ELSE /\ pc' = "connect"
               /\ attempt' = attempt + 1
               /\ UNCHANGED web3_obj
    /\ UNCHANGED << max_retries, cooldowns, idx >>
    /\ UNCHANGED << fileVars, filterVars, formatVars, runVars >>

\* time.sleep(2) at line 234, then the next pass
ConnectCooldown ==
    /\ pc = "cooldown"
    /\ cooldowns' = cooldowns + Cooldown
    /\ attempt' = attempt + 1
    /\ pc' = "connect"
    /\ UNCHANGED << max_retries, web3_obj, attempts, idx >>
    /\ UNCHANGED << fileVars, filterVars, formatVars, runVars >>

\* the loop is over: lines 236-237 return None, lines 330-332 end the run
ConnectExhausted ==
    /\ pc = "connect"
    /\ attempt = max_retries
    /\ pc' = "aborted"
    /\ UNCHANGED << idx, fileVars, filterVars, formatVars, connVars, runVars >>

\* lines 334-344: symbol() then decimals(); either may raise
ResolveMetadata ==
    /\ pc = "metadata"
    /\ \E outcome \in {"symbol_raises", "decimals_raises", "resolved"} :
          CASE outcome = "symbol_raises" ->
                 /\ metadata_calls' = metadata_calls + 1
                 /\ pc' = "aborted"
                 /\ UNCHANGED << token_decimals, calc_count >>
            [] outcome = "decimals_raises" ->
                 /\ metadata_calls' = metadata_calls + 2
                 /\ pc' = "aborted"
                 /\ UNCHANGED << token_decimals, calc_count >>
            [] outcome = "resolved" ->
                 /\ metadata_calls' = metadata_calls + 2
                 /\ token_decimals' \in TokenDecimals
                 /\ calc_count' = 0
                 /\ pc' = "iterate"
    /\ UNCHANGED << idx, balance_calls, address, delay, matched, queried,
                    delayed, logged, summary >>
    /\ UNCHANGED << fileVars, filterVars, formatVars, connVars >>

\* lines 345-357: the next record, up to the balance queries
\* variant: a derivation failure returns instead of continuing
BalanceIterate_derivation_aborts ==
    /\ pc = "iterate"
    /\ idx < Len(wallets)
    /\ idx' = idx + 1
    /\ IF ~is_id_valid(idx', runeq, rungt, runlt)
       THEN UNCHANGED << pc, calc_count, matched, address >>
       ELSE /\ calc_count' = calc_count + 1
            /\ matched' = Append(matched, idx')
            /\ LET parts == Split(wallets[idx'], ",")
                   private_key == parts[1]
                   addr == get_address_by_key(private_key)
               IN IF addr = NoAddress
                  THEN /\ pc' = "aborted"
                       /\ UNCHANGED address
                  ELSE /\ address' = addr
                       /\ pc' = "query"
    /\ UNCHANGED << token_decimals, metadata_calls, balance_calls, delay,
                    queried, delayed, logged, summary >>
    /\ UNCHANGED << fileVars, filterVars, formatVars, connVars >>

BalanceIterate ==
    /\ pc = "iterate"
    /\ idx < Len(wallets)
    /\ idx' = idx + 1
    /\ IF ~is_id_valid(idx', runeq, rungt, runlt)
       THEN UNCHANGED << pc, calc_count, matched, address >>
       ELSE /\ calc_count' = calc_count + 1
            /\ matched' = Append(matched, idx')
            /\ LET parts == Split(wallets[idx'], ",")
                   private_key == parts[1]
                   addr == get_address_by_key(private_key)
               IN IF addr = NoAddress
                  THEN UNCHANGED << pc, address >>
                  ELSE /\ address' = addr
                       /\ pc' = "query"
    /\ UNCHANGED << token_decimals, metadata_calls, balance_calls, delay,
                    queried, delayed, logged, summary >>
    /\ UNCHANGED << fileVars, filterVars, formatVars, connVars >>

\* lines 359-370: get_balance, format, balanceOf, format, log; an exception
\* anywhere is caught and logged.  calls is the number of balance calls made
\* and ok whether the result line was logged.
QueryOutcomes ==
    {[calls |-> 1, ok |-> FALSE]}                          \* get_balance raises
    \cup UNION {
        IF ~format_token_amount(n, NativeDecimals).ok
        THEN {[calls |-> 1, ok |-> FALSE]}                 \* formatting raises
        ELSE {[calls |-> 2, ok |-> FALSE]}                 \* balanceOf raises
             \cup {[calls |-> 2,
                    ok |-> format_token_amount(t, token_decimals).ok] :
                      t \in RawBalances}
        : n \in RawBalances }

\* variant: a failed query goes on to the next record at once
BalanceQuery_failure_skips_delay ==
    /\ pc = "query"
    /\ \E o \in QueryOutcomes :
          /\ balance_calls' = balance_calls + o.calls
          /\ logged' = IF o.ok THEN Append(logged, idx) ELSE logged
          /\ pc' = IF o.ok THEN "delay" ELSE "iterate"
    /\ queried' = Append(queried, idx)
    /\ UNCHANGED << idx, token_decimals, metadata_calls, calc_count, address,
                    delay, matched, delayed, summary >>
    /\ UNCHANGED << fileVars, filterVars, formatVars, connVars >>

BalanceQuery ==
    /\ pc = "query"
    /\ \E o \in QueryOutcomes :
          /\ balance_calls' = balance_calls + o.calls
          /\ logged' = IF o.ok THEN Append(logged, idx) ELSE logged
    /\ queried' = Append(queried, idx)
    /\ pc' = "delay"
    /\ UNCHANGED << idx, token_decimals, metadata_calls, calc_count, address,
                    delay, matched, delayed, summary >>
    /\ UNCHANGED << fileVars, filterVars, formatVars, connVars >>

\* lines 372-374: time.sleep(random.uniform(1, 3))
BalanceDelay ==
    /\ pc = "delay"
    /\ delay' \in DelayMin..DelayMax
    /\ delayed' = Append(delayed, idx)
    /\ pc' = "iterate"
    /\ UNCHANGED << idx, token_decimals, metadata_calls, balance_calls,
                    calc_count, address, matched, queried, logged, summary >>
    /\ UNCHANGED << fileVars, filterVars, formatVars, connVars >>

\* line 376: the summary
BalanceSummary ==
    /\ pc = "iterate"
    /\ idx = Len(wallets)
    /\ summary' = calc_count
    /\ pc' = "done"
    /\ UNCHANGED << idx, token_decimals, metadata_calls, balance_calls,
                    calc_count, address, delay, matched, queried, delayed,
                    logged >>
    /\ UNCHANGED << fileVars, filterVars, formatVars, connVars >>

NextBalance ==
    \/ BalanceLoad
    \/ ConnectAttempt \/ ConnectCooldown \/ ConnectExhausted
    \/ ResolveMetadata
    \/ BalanceIterate \/ BalanceQuery \/ BalanceDelay \/ BalanceSummary

SpecBalance == InitBalance /\ [][NextBalance]_vars

\* the indices 1..n that pass the filter of the run, in ledger order
Passing(n) ==
    SelectSeq([i \in 1..n |-> i],
              LAMBDA i : (runeq = <<>> \/ \E k \in 1..Len(runeq) : runeq[k] = i)
                         /\ (rungt = 0 \/ i > rungt)
                         /\ (runlt = 0 \/ i < runlt))

\* the run was ended by get_web3_connection returning None
ConnectionFailed == pc = "aborted" /\ attempts > 0 /\ web3_obj = None

\* the run got past connection and metadata resolution
IterationReached == pc \in {"iterate", "query", "delay", "done"}

\* C2: when every attempt fails, get_web3_connection makes exactly
\* max_retries attempts, sleeps the cooldown after each attempt but the last,
\* and the run ends without a metadata call or a balance call.
C2_RetriesThenAbort ==
    /\ ConnectionFailed =>
          /\ attempts = max_retries
          /\ cooldowns = Cooldown * (max_retries - 1)
    /\ web3_obj = None =>
          /\ metadata_calls = 0 /\ balance_calls = 0 /\ queried = <<>>
          /\ cooldowns = Cooldown * (IF attempts = 0 THEN 0
                                     ELSE IF pc = "cooldown" THEN attempts - 1
                                     ELSE IF attempts < max_retries THEN attempts
                                     ELSE attempts - 1)

\* the default three attempts all failed, with two cooldowns
C2_Witness ==
    /\ ConnectionFailed
    /\ max_retries = DefaultMaxRetries
    /\ attempts = DefaultMaxRetries
    /\ cooldowns = 2 * Cooldown

\* C3: the count in the final summary is the number of wallets whose balances
\* were queried (successfully or with a failed attempt); filtered-out records
\* are not counted; with three records and equals-set {2} the wallet at index
\* 2 alone is queried and the summary reports 1.
C3_SummaryCountsQueried ==
    pc = "done" =>
        /\ summary = Len(queried)
        /\ (Len(wallets) = 3 /\ runeq = << 2 >> /\ rungt = 0 /\ runlt = 0 =>
                queried = << 2 >> /\ summary = 1)

\* C4: whatever fails on individual wallets, every record whose index passes
\* the filter is attempted exactly once, in ledger order, and a run that
\* reached the iteration never ends in Aborted: it ends with the summary.
C4_FailuresAreWalletLocal ==
    /\ pc = "aborted" => idx = 0 /\ matched = <<>> /\ queried = <<>>
    /\ IterationReached =>
          /\ matched = Passing(idx)
          /\ (pc = "done" => idx = Len(wallets))
          /\ idx <= Len(wallets)

\* a derivation failure, then a failed query, then a logged wallet, and the
\* summary
C4_Witness ==
    /\ pc = "done"
    /\ matched = << 1, 2, 3 >>
    /\ queried = << 2, 3 >>
    /\ logged = << 3 >>

\* C9: the pacing delay, between 1 and 3, is applied once per wallet whose
\* balances were queried, after its queries, the last wallet included, and
\* never for a record that was filtered out or skipped.
C9_OneDelayPerQueriedWallet ==
    IterationReached =>
        /\ (pc \in {"iterate", "query", "done"} => delayed = queried)
        /\ (pc = "delay" => queried = Append(delayed, idx))
        /\ (delayed # <<>> => delay \in DelayMin..DelayMax)
        /\ \A k \in 1..Len(delayed) :
              \E j \in 1..Len(matched) : matched[j] = delayed[k]

\* a run that skipped a filtered-out record and slept after its last wallet,
\* whose query had failed
C9_Witness ==
    /\ pc = "done"
    /\ Len(wallets) = 3
    /\ matched = << 1, 3 >>
    /\ queried = << 1, 3 >>
    /\ logged = << 1 >>
    /\ delayed = << 1, 3 >>

====
